---- MODULE Spec2Model ----
(***************************************************************************)
(* go-wiki (src/wiki.go): a wiki server over net/http whose pages live in  *)
(* the PostgreSQL table "pages", reached through one shared *pgx.Conn.     *)
(*                                                                         *)
(* Strings (paths, titles, bodies) are sequences of one-character strings. *)
(* A request handler runs in its own goroutine and blocks inside the one   *)
(* store call it makes (conn.QueryRow / conn.Exec); the model splits each  *)
(* handler at that call: Serve runs the handler up to the issue of the     *)
(* statement, ViewReturns / EditReturns / SaveReturns run the statement    *)
(* and the rest of the handler.                                            *)
(***************************************************************************)
EXTENDS Naturals, Sequences, FiniteSets, Bags, TLC

VARIABLES pc, exitCode, conn, rows, inflight, last, lastSaved

vars == <<pc, exitCode, conn, rows, inflight, last, lastSaved>>

(***************************************************************************)
(* Bounds of the model.                                                    *)
(***************************************************************************)
\* number of requests that may be inside a handler at the same time
MaxConc == 2

(***************************************************************************)
(* Characters, titles, bodies, paths.                                      *)
(***************************************************************************)
Lower == {"a","b","c","d","e","f","g","h","i","j","k","l","m",
          "n","o","p","q","r","s","t","u","v","w","x","y","z"}

Upper == {"A","B","C","D","E","F","G","H","I","J","K","L","M",
          "N","O","P","Q","R","S","T","U","V","W","X","Y","Z"}

Digit == {"0","1","2","3","4","5","6","7","8","9"}

\* the character class [a-zA-Z0-9]
Alnum == Lower \cup Upper \cup Digit

Sl == <<"/">>

sEdit == <<"e","d","i","t">>

sSave == <<"s","a","v","e">>

sView == <<"v","i","e","w">>

sCss == <<"c","s","s">>

sDelete == <<"d","e","l","e","t","e">>

FrontPage == <<"F","r","o","n","t","P","a","g","e">>

\* the titles requests are made for
ValidTitles == {<<"A">>, <<"z","9">>}

\* the bodies submitted in the form field "body"
Bodies == {<<"x">>}

\* the form of a request: the fields it carries, by name
Forms == {<<>>} \cup {("body" :> b) : b \in Bodies}

Methods == {"GET", "POST"}

WikiPath(a, t) == Sl \o a \o Sl \o t

\* Paths are clean (no "//", "." or ".." element) and none is a registered
\* subtree without its trailing slash: ServeMux answers those itself, with a
\* 301 to the canonical path, before any route is chosen.
OtherPaths ==
    { Sl,                                      \* /
      Sl \o sCss \o Sl \o <<"w">>,             \* /css/w
      WikiPath(sDelete, <<"A">>),              \* /delete/A
      Sl \o sView \o Sl,                       \* /view/
      WikiPath(sSave, <<"a"," ","b">>),        \* /save/a b
      WikiPath(sEdit, <<"A",".","x">>),        \* /edit/A.x
      WikiPath(sView, <<"A","/","A">>),        \* /view/A/A
      WikiPath(sView, <<"A","\n">>) }          \* /view/A<newline>

Paths == OtherPaths \cup {WikiPath(a, t) : a \in {sEdit, sSave, sView}, t \in ValidTitles}

HasPrefix(s, p) == Len(p) <= Len(s) /\ SubSeq(s, 1, Len(p)) = p

\* Only saveHandler reads the request beyond its path (r.FormValue), so the
\* method and the form vary on the /save/ paths and are GET and empty elsewhere.
Requests ==
    {[method |-> m, path |-> p, form |-> f] : m \in Methods, p \in {q \in Paths : HasPrefix(q, Sl \o sSave \o Sl)}, f \in Forms}
    \cup {[method |-> "GET", path |-> p, form |-> <<>>] : p \in Paths}

(***************************************************************************)
(* validPath = regexp.MustCompile("^/(edit|save|view)/([a-zA-Z0-9]+)$")    *)
(* FindStringSubmatch: <<>> is nil, otherwise <<m[0], m[1], m[2]>>.        *)
(***************************************************************************)
validPathActions == {sEdit, sSave, sView}

validPath(path) ==
    LET acts == {a \in validPathActions :
                    /\ HasPrefix(path, Sl \o a \o Sl)
                    /\ Len(path) > Len(a) + 2
                    /\ \A i \in (Len(a) + 3)..Len(path) : path[i] \in Alnum}
    IN IF acts = {} THEN <<>>
       ELSE LET a == CHOOSE x \in acts : TRUE
            IN <<path, a, SubSeq(path, Len(a) + 3, Len(path))>>

(***************************************************************************)
(* Page and the pages table.                                               *)
(***************************************************************************)
Page(id, title, body) == [ID |-> id, Title |-> title, Body |-> body]

\* the nil *Page
NilPage == Page(0, <<>>, <<>>)

\* the id the table's id column gives the next inserted row: rows are never
\* deleted, so the ids handed out so far are 1..Cardinality(tbl)
nextval(tbl) == Cardinality(tbl) + 1

\* a row of the table pages (id, title UNIQUE, body)
Row(id, title, body) == [id |-> id, title |-> title, body |-> body]

\* INSERT INTO pages (title, body) VALUES ($1, $2)
\*   ON CONFLICT ON CONSTRAINT title DO UPDATE SET body = $2
\* the conflict appends to the stored body instead of replacing it
upsert_append(tbl, title, body) ==
    IF \E r \in tbl : r.title = title
    THEN {IF r.title = title THEN [r EXCEPT !.body = r.body \o body] ELSE r : r \in tbl}
    ELSE tbl \cup {Row(nextval(tbl), title, body)}

\* a plain INSERT without the ON CONFLICT clause and without the constraint
upsert_insert(tbl, title, body) ==
    IF \E r \in tbl : r.title = title /\ r.body = body
    THEN tbl
    ELSE tbl \cup {Row(nextval(tbl), title, body)}

upsert(tbl, title, body) ==
    IF \E r \in tbl : r.title = title
    THEN {IF r.title = title THEN [r EXCEPT !.body = body] ELSE r : r \in tbl}
    ELSE tbl \cup {Row(nextval(tbl), title, body)}

\* (p *Page) save: the statement runs (dbOk) or conn.Exec returns an error
\* and the statement has no effect; the error is handed back as it is.
\* An error is possible on every call: it covers the engine's errors and the
\* "conn busy" of a connection that another goroutine is using. The engine
\* runs each statement atomically.
\* the body is written although the statement reports an error
save_partial(p, tbl, dbOk) ==
    [err |-> IF dbOk THEN "nil" ELSE "storage", rows |-> upsert(tbl, p.Title, p.Body)]

save(p, tbl, dbOk) ==
    IF dbOk
    THEN [err |-> "nil", rows |-> upsert(tbl, p.Title, p.Body)]
    ELSE [err |-> "storage", rows |-> tbl]

\* SELECT id, body FROM pages WHERE title=$1, scanned from the first row
loadPage(title, tbl, dbOk) ==
    LET found == {r \in tbl : r.title = title}
    IN IF ~dbOk THEN [err |-> "storage", p |-> NilPage]
       ELSE IF found = {} THEN [err |-> "norows", p |-> NilPage]
       ELSE LET r == CHOOSE x \in found : TRUE
            IN [err |-> "nil", p |-> Page(r.id, title, r.body)]

\* the result of a handler that called neither loadPage nor save
NoLoad == [err |-> "", p |-> NilPage]

(***************************************************************************)
(* Responses.                                                              *)
(***************************************************************************)
Resp(status, location, tmpl, page, text) ==
    [status |-> status, location |-> location, tmpl |-> tmpl, page |-> page, text |-> text]

\* http.NotFound
NotFound == Resp(404, <<>>, "", NilPage, "404 page not found")

\* http.Redirect
Redirect(location, code) == Resp(code, location, "", NilPage, "")

\* http.Error
Error(text, code) == Resp(code, <<>>, "", NilPage, text)

\* a file served by http.FileServer
File == Resp(200, <<>>, "", NilPage, "file")

\* templates.ExecuteTemplate(w, tmpl+".html", p), and http.Error when it fails
renderTemplate(tmpl, p, renderOk) ==
    IF renderOk THEN Resp(200, <<>>, tmpl, p, "") ELSE Error("template", 500)

\* r.FormValue(key): the empty string when the form has no such field
FormValue(req, key) == IF key \in DOMAIN req.form THEN req.form[key] ELSE <<>>

(***************************************************************************)
(* Handlers: the response of each, from the result of its store call.      *)
(***************************************************************************)
\* only a missing row redirects, any other load error is reported
viewHandler_report(title, ld, renderOk) ==
    IF ld.err = "norows"
    THEN Redirect(Sl \o sEdit \o Sl \o title, 302)
    ELSE IF ld.err # "nil" THEN Error(ld.err, 500)
    ELSE renderTemplate("view", ld.p, renderOk)

viewHandler(title, ld, renderOk) ==
    IF ld.err # "nil"
    THEN Redirect(Sl \o sEdit \o Sl \o title, 302)
    ELSE renderTemplate("view", ld.p, renderOk)

\* a storage error keeps the nil page instead of the empty page of that title
editHandler_nil(title, ld, renderOk) ==
    LET p == IF ld.err = "norows" THEN Page(0, title, <<>>) ELSE ld.p
    IN renderTemplate("edit", p, renderOk)

editHandler(title, ld, renderOk) ==
    LET p == IF ld.err # "nil" THEN Page(0, title, <<>>) ELSE ld.p
    IN renderTemplate("edit", p, renderOk)

\* the page saveHandler builds from the request
savePage(req, title) == Page(0, title, FormValue(req, "body"))

saveHandler(title, err) ==
    IF err # "nil"
    THEN Error(err, 500)
    ELSE Redirect(Sl \o sView \o Sl \o title, 302)

(***************************************************************************)
(* http.ServeMux with the routes main registers.                           *)
(***************************************************************************)
MuxPatterns ==
    { Sl \o sCss \o Sl, Sl \o sView \o Sl, Sl \o sEdit \o Sl, Sl \o sSave \o Sl, Sl }

\* the longest registered pattern the path starts with
muxMatch(path) ==
    CHOOSE p \in MuxPatterns :
        /\ HasPrefix(path, p)
        /\ \A q \in MuxPatterns : HasPrefix(path, q) => Len(q) <= Len(p)

\* the function main passes to makeHandler for a pattern
routeFn(pattern) ==
    IF pattern = Sl \o sView \o Sl THEN "view"
    ELSE IF pattern = Sl \o sEdit \o Sl THEN "edit"
    ELSE IF pattern = Sl \o sSave \o Sl THEN "save"
    ELSE ""

\* makeHandler(fn, conn): <<>> when the path is rejected with http.NotFound,
\* otherwise the call fn(w, r, m[2], conn)
\* the save route accepts POST only
makeHandler_post(fn, req) ==
    LET m == validPath(req.path)
    IN IF m = <<>> \/ (fn = "save" /\ req.method # "POST") THEN <<>>
       ELSE <<[req |-> req, fn |-> fn, title |-> m[3],
               p |-> IF fn = "save" THEN savePage(req, m[3]) ELSE NilPage]>>

makeHandler(fn, req) ==
    LET m == validPath(req.path)
    IN IF m = <<>> THEN <<>>
       ELSE <<[req |-> req, fn |-> fn, title |-> m[3],
               p |-> IF fn = "save" THEN savePage(req, m[3]) ELSE NilPage]>>

(***************************************************************************)
(* State.                                                                  *)
(*   pc        where main is: "init" (package initialisation), "main",     *)
(*             "connected", "serving", "exited"                            *)
(*   exitCode  the exit status once pc = "exited"                          *)
(*   conn      the connection: "none", "failed", "open", "closed"          *)
(*   rows      the rows of the table pages                                 *)
(*   inflight  the handler calls blocked in their store call (a bag)       *)
(*   last      the exchange completed last: request, route, result of the  *)
(*             store call, the table as it was before, response            *)
(*   lastSaved history: per title, the body of the last successful save    *)
(***************************************************************************)
NoReq == [method |-> "", path |-> <<>>, form |-> <<>>]

Exchange(req, route, res, before, resp) ==
    [req |-> req, route |-> route, result |-> res, before |-> before, resp |-> resp]

NoExchange == Exchange(NoReq, "", NoLoad, {}, Resp(0, <<>>, "", NilPage, ""))

NeverSaved == [saved |-> FALSE, body |-> <<>>]

Init ==
    /\ pc = "init"
    /\ exitCode = 0
    /\ conn = "none"
    /\ rows = {}
    /\ inflight = EmptyBag
    /\ last = NoExchange
    /\ lastSaved = [t \in ValidTitles |-> NeverSaved]

Exit(code) == pc' = "exited" /\ exitCode' = code

(***************************************************************************)
(* main.                                                                   *)
(***************************************************************************)
\* var templates = template.Must(template.ParseFiles(...)): panics (exit
\* status 2) when a template file is missing or does not parse
LoadTemplates ==
    /\ pc = "init"
    /\ \E ok \in BOOLEAN :
          IF ok THEN pc' = "main" /\ UNCHANGED exitCode ELSE Exit(2)
    /\ UNCHANGED <<conn, rows, inflight, last, lastSaved>>

\* the connect error is printed and main goes on
Connect_goes_on ==
    /\ pc = "main"
    /\ \E ok \in BOOLEAN :
          /\ conn' = IF ok THEN "open" ELSE "failed"
          /\ pc' = "connected"
          /\ UNCHANGED exitCode
    /\ UNCHANGED <<rows, inflight, last, lastSaved>>

\* pgx.Connect; os.Exit(1) on error, defer conn.Close otherwise
Connect ==
    /\ pc = "main"
    /\ \E ok \in BOOLEAN :
          IF ok
          THEN conn' = "open" /\ pc' = "connected" /\ UNCHANGED exitCode
          ELSE conn' = "failed" /\ Exit(1)
    /\ UNCHANGED <<rows, inflight, last, lastSaved>>

\* the routes are registered and http.ListenAndServe starts serving
Listen ==
    /\ pc = "connected"
    /\ pc' = "serving"
    /\ UNCHANGED <<exitCode, conn, rows, inflight, last, lastSaved>>

\* http.ListenAndServe returns its error and log.Fatal calls os.Exit(1):
\* deferred calls do not run, the handlers still running end with the process
Fatal ==
    /\ pc = "serving"
    /\ Exit(1)
    /\ inflight' = EmptyBag
    /\ UNCHANGED <<conn, rows, last, lastSaved>>

(***************************************************************************)
(* Requests.                                                               *)
(***************************************************************************)
Answer(req, route, ld, resp) ==
    /\ last' = Exchange(req, route, ld, rows, resp)
    /\ UNCHANGED <<inflight, rows, lastSaved>>

\* A request arrives: ServeMux picks the route; a wiki route goes through
\* makeHandler and, on a valid path, into its handler up to the store call.
Serve(req) ==
    /\ pc = "serving"
    /\ BagCardinality(inflight) < MaxConc
    /\ LET pattern == muxMatch(req.path)
       IN IF pattern = Sl \o sCss \o Sl
          THEN \E found \in BOOLEAN :
                  Answer(req, "css", NoLoad, IF found THEN File ELSE NotFound)
          ELSE IF pattern = Sl
          THEN Answer(req, "home", NoLoad, Redirect(Sl \o sView \o Sl \o FrontPage, 302))
          ELSE LET call == makeHandler(routeFn(pattern), req)
               IN IF call = <<>>
                  THEN Answer(req, "notfound", NoLoad, NotFound)
                  ELSE /\ inflight' = inflight (+) SetToBag({call[1]})
                       /\ UNCHANGED <<last, rows, lastSaved>>
    /\ UNCHANGED <<pc, exitCode, conn>>

\* viewHandler: loadPage returns, then the redirect or the view template
ViewReturns(c) ==
    /\ pc = "serving"
    /\ BagIn(c, inflight) /\ c.fn = "view"
    /\ \E dbOk \in BOOLEAN, renderOk \in BOOLEAN :
          LET ld == loadPage(c.title, rows, dbOk)
          IN last' = Exchange(c.req, "view", ld, rows, viewHandler(c.title, ld, renderOk))
    /\ inflight' = inflight (-) SetToBag({c})
    /\ UNCHANGED <<pc, exitCode, conn, rows, lastSaved>>

\* editHandler: loadPage returns, then the edit template
EditReturns(c) ==
    /\ pc = "serving"
    /\ BagIn(c, inflight) /\ c.fn = "edit"
    /\ \E dbOk \in BOOLEAN, renderOk \in BOOLEAN :
          LET ld == loadPage(c.title, rows, dbOk)
          IN last' = Exchange(c.req, "edit", ld, rows, editHandler(c.title, ld, renderOk))
    /\ inflight' = inflight (-) SetToBag({c})
    /\ UNCHANGED <<pc, exitCode, conn, rows, lastSaved>>

\* saveHandler: p.save returns, then the redirect or the error
SaveReturns(c) ==
    /\ pc = "serving"
    /\ BagIn(c, inflight) /\ c.fn = "save"
    /\ \E dbOk \in BOOLEAN :
          LET s == save(c.p, rows, dbOk)
          IN /\ rows' = s.rows
             /\ last' = Exchange(c.req, "save", [err |-> s.err, p |-> c.p], rows,
                                 saveHandler(c.title, s.err))
             /\ lastSaved' = IF s.err = "nil"
                             THEN [lastSaved EXCEPT ![c.title] = [saved |-> TRUE, body |-> c.p.Body]]
                             ELSE lastSaved
    /\ inflight' = inflight (-) SetToBag({c})
    /\ UNCHANGED <<pc, exitCode, conn>>

\* the handler calls the requests can lead to
Calls ==
    UNION {{x[i] : i \in DOMAIN x} :
              x \in {makeHandler(routeFn(muxMatch(r.path)), r) : r \in Requests}}

Next ==
    \/ LoadTemplates
    \/ Connect
    \/ Listen
    \/ Fatal
    \/ \E req \in Requests : Serve(req)
    \/ \E c \in Calls : ViewReturns(c)
    \/ \E c \in Calls : EditReturns(c)
    \/ \E c \in Calls : SaveReturns(c)

Spec == Init /\ [][Next]_vars

(***************************************************************************)
(* Properties.                                                             *)
(***************************************************************************)
\* the title the router extracted for an exchange that went through a handler
TitleOf(e) == validPath(e.req.path)[3]

Handled(e) == e.route \in {"view", "edit", "save"}

\* what a load that meets no storage error finds for a title
Stored(tbl, title) == loadPage(title, tbl, TRUE)

\* C1: after any sequence of successful saves, loadPage(title) returns
\* exactly the body of the most recent successful save to that title, and
\* finds no row for a title never saved; a second save replaces the body.
C1_LoadReturnsLastSave ==
    /\ \A t \in ValidTitles :
          IF lastSaved[t].saved
          THEN Stored(rows, t).err = "nil" /\ Stored(rows, t).p.Title = t
               /\ Stored(rows, t).p.Body = lastSaved[t].body
          ELSE Stored(rows, t).err = "norows"
    /\ (last.route \in {"view", "edit"} /\ last.result.err = "nil") =>
          /\ lastSaved[TitleOf(last)].saved
          /\ last.result.p.Body = lastSaved[TitleOf(last)].body
          /\ last.result.p.Title = TitleOf(last)
    /\ (last.route = "save" /\ last.result.err = "nil") =>
          Stored(rows, TitleOf(last)).p.Body = FormValue(last.req, "body")

\* a save that replaced the body "x" by "" next to a row of the other title:
\* loadPage on the table returns "" for the one and the other's body for the other
C1_Witness ==
    /\ last.route = "save" /\ last.result.err = "nil"
    /\ loadPage(TitleOf(last), last.before, TRUE).p.Body = <<"x">>
    /\ loadPage(TitleOf(last), rows, TRUE).p.Body = <<>>
    /\ \E t \in ValidTitles :
          t # TitleOf(last) /\ lastSaved[t].saved /\ loadPage(t, rows, TRUE).p.Body = <<"x">>

\* C2 as stated: a request whose path does not match validPath, other than /
\* and /css/*, is answered 404 and runs no handler and no store operation.
C2_UnmatchedPathIs404 ==
    (/\ last # NoExchange
     /\ validPath(last.req.path) = <<>>
     /\ last.req.path # Sl
     /\ ~HasPrefix(last.req.path, Sl \o sCss \o Sl)) =>
        /\ last.resp.status = 404
        /\ ~Handled(last)
        /\ rows = last.before

\* C3 as stated: a view request answers 200 with the view template whenever
\* loadPage succeeds, and 302 to /edit/<title> whenever loadPage fails.
C3_ViewAlways200OnLoad ==
    last.route = "view" =>
        IF last.result.err = "nil"
        THEN last.resp = Resp(200, <<>>, "view", last.result.p, "")
        ELSE last.resp = Redirect(Sl \o sEdit \o Sl \o TitleOf(last), 302)

\* C3 amended: when loadPage succeeds a view request answers 200 with the
\* view template of the loaded page if the template executes, and 500 with
\* the template error if it does not; when loadPage fails, for a missing row
\* or any other error, it answers 302 to /edit/<same title>, never 500.
C3_ViewRendersOrRedirects ==
    last.route = "view" =>
        IF last.result.err = "nil"
        THEN \/ last.resp = Resp(200, <<>>, "view", last.result.p, "")
             \/ last.resp = Error("template", 500)
        ELSE last.resp = Redirect(Sl \o sEdit \o Sl \o TitleOf(last), 302)

\* a view request redirected because of a storage error on a stored title
C3_Witness ==
    /\ last.route = "view"
    /\ last.result.err = "storage"
    /\ Stored(rows, TitleOf(last)).err = "nil"
    /\ last.resp.status = 302

\* C4: a save request answers 302 to /view/<title> exactly when save
\* succeeded and 500 with the error text exactly when it failed; a failed
\* save leaves the table as it was, the former body still being loaded.
C4_SaveRedirectsOrFails ==
    last.route = "save" =>
        /\ last.result.err = "nil" <=>
              last.resp = Redirect(Sl \o sView \o Sl \o TitleOf(last), 302)
        /\ last.result.err # "nil" <=>
              last.resp = Error(last.result.err, 500)
        /\ last.result.err # "nil" =>
              /\ rows = last.before
              /\ Stored(rows, TitleOf(last)) = Stored(last.before, TitleOf(last))

\* a failed save of another body over a stored title
C4_Witness ==
    /\ last.route = "save"
    /\ last.result.err # "nil"
    /\ last.resp.status = 500
    /\ Stored(rows, TitleOf(last)).err = "nil"
    /\ Stored(rows, TitleOf(last)).p.Body # last.result.p.Body

\* C5: a save changes nothing but the body of the row of its title: the rows
\* of other titles stay as they were, an existing row keeps its id and title,
\* and the table never holds two rows of one title.
C5_SaveTouchesOneBody ==
    /\ \A r1, r2 \in rows : r1.title = r2.title => r1 = r2
    /\ last.route = "save" =>
          /\ \A r \in last.before : r.title # TitleOf(last) => r \in rows
          /\ \A r \in rows : r.title # TitleOf(last) => r \in last.before
          /\ \A r \in last.before : r.title = TitleOf(last) =>
                \E r2 \in rows : r2.id = r.id /\ r2.title = r.title
          /\ Cardinality(rows) <= Cardinality(last.before) + 1

\* a successful save over a stored title, next to a row of another title
C5_Witness ==
    /\ last.route = "save"
    /\ last.result.err = "nil"
    /\ Cardinality(last.before) = 2
    /\ rows # last.before

\* C6 as stated: no two requests are inside a store operation on the shared
\* connection at the same time.
C6_OneStoreCallAtATime == BagCardinality(inflight) <= 1

\* C7: a failed connect ends the process with a non-zero status before the
\* listener starts: no request is accepted and no handler runs after it, and
\* the listener runs only on a connection that was opened.
C7_NoServingWithoutConnect ==
    /\ conn = "failed" =>
          /\ pc = "exited" /\ exitCode # 0
          /\ inflight = EmptyBag /\ last = NoExchange
    /\ (pc = "serving" \/ inflight # EmptyBag \/ last # NoExchange) => conn = "open"

\* the process ended by the failed connect
C7_Witness == conn = "failed" /\ pc = "exited" /\ exitCode = 1

\* C8 as stated: a process that ends after a successful connect has closed
\* the connection.
C8_ClosedOnExit == (pc = "exited" /\ conn \notin {"none", "failed"}) => conn = "closed"

\* C9: an edit request never redirects: it renders the edit template with
\* the loaded page when loadPage succeeds and with the requested title and
\* an empty body when loadPage fails; view and edit requests leave the table
\* as it was.
C9_EditRendersFormOnly ==
    /\ last.route = "edit" =>
          LET p == IF last.result.err = "nil"
                   THEN Page(Stored(last.before, TitleOf(last)).p.ID, TitleOf(last),
                             Stored(last.before, TitleOf(last)).p.Body)
                   ELSE Page(0, TitleOf(last), <<>>)
          IN /\ \/ last.resp = Resp(200, <<>>, "edit", p, "")
                \/ last.resp = Error("template", 500)
             /\ last.resp.status \notin {301, 302}
             /\ last.resp.location = <<>>
    /\ last.route \in {"view", "edit"} => rows = last.before

\* an edit form for a stored title rendered empty after a storage error
C9_Witness ==
    /\ last.route = "edit"
    /\ last.result.err = "storage"
    /\ Stored(rows, TitleOf(last)).err = "nil"
    /\ Stored(rows, TitleOf(last)).p.Body = <<"x">>
    /\ last.resp = Resp(200, <<>>, "edit", Page(0, TitleOf(last), <<>>), "")

\* C10: a request to /save/<valid title> reaches saveHandler whatever its
\* method, and the body it stores is the form field body, the empty body
\* when the field is absent, in place of the body stored before; it is
\* answered 302 to /view/<title> as a POST is.
C10_SaveIgnoresMethod ==
    /\ (last # NoExchange /\ validPath(last.req.path) # <<>>
          /\ validPath(last.req.path)[2] = sSave) => last.route = "save"
    /\ (last.route = "save" /\ last.result.err = "nil") =>
          /\ Stored(rows, TitleOf(last)).err = "nil"
          /\ Stored(rows, TitleOf(last)).p.Body =
                (IF "body" \in DOMAIN last.req.form THEN last.req.form["body"] ELSE <<>>)
          /\ last.resp = Redirect(Sl \o sView \o Sl \o TitleOf(last), 302)

\* a GET without the field that emptied a stored body
C10_Witness ==
    /\ last.route = "save"
    /\ last.req.method = "GET"
    /\ "body" \notin DOMAIN last.req.form
    /\ last.result.err = "nil"
    /\ Stored(last.before, TitleOf(last)).p.Body = <<"x">>
    /\ Stored(rows, TitleOf(last)).p.Body = <<>>
    /\ last.resp.status = 302

====
